---- MODULE Spec2Model ----
(***************************************************************************)
(* Model of the tilemap-atlas crate: corner-mask encoding, the RPG Maker   *)
(* 4x6 cell-view table and quadrant compositing, the conversion to the     *)
(* standard 16-cell strip, and the file-system atlas registry.             *)
(*                                                                         *)
(* An image is a record [w, h, px, wr]: px maps <<x, y>> to a pixel value  *)
(* (0 is the transparent pixel of RgbaImage::new), wr is a ghost field     *)
(* counting how many times each pixel has been written since allocation.   *)
(* A call result is a record [status, err, img, idx] with status one of    *)
(* "Ok", "Err", "Panic", "None".                                           *)
(***************************************************************************)
EXTENDS Integers, Sequences, FiniteSets, TLC

VARIABLES call, raw, ret, tileset, atlas, target, descriptor, calls, pc, snap

vars == <<call, raw, ret, tileset, atlas, target, descriptor, calls, pc, snap>>

\* ---------------------------------------------------------------- bounds
\* largest cell width/height of a source image
MaxCell == 2
\* largest target width/height passed to set_target_size
MaxSize == 2
\* number of mutating registry calls in one run
MaxCalls == 2
\* number of threads calling insert_atlas concurrently
NThreads == 2

\* ---------------------------------------------------------------- images
Coords(w, h) == (0 .. w - 1) \X (0 .. h - 1)

\* a pixel buffer is stored element by element: the function is evaluated
\* once here, not again at every later read
Stored(f) == IF f = f THEN f ELSE f

\* RgbaImage::new(w, h): all pixels zero, nothing written yet
NewImage(w, h) ==
    [w |-> w, h |-> h, px |-> Stored([p \in Coords(w, h) |-> 0]),
     wr |-> Stored([p \in Coords(w, h) |-> 0])]

NoImage == NewImage(0, 0)

\* a decoded source image whose pixels are pairwise distinct and non-zero
SourceImage(w, h) ==
    [w |-> w, h |-> h, px |-> Stored([p \in Coords(w, h) |-> 1 + p[1] + w * p[2]]),
     wr |-> Stored([p \in Coords(w, h) |-> 0])]

SamePixels(a, b) == a.w = b.w /\ a.h = b.h /\ a.px = b.px

Ok(img) == [status |-> "Ok", err |-> "", img |-> img, idx |-> 0]
Err(kind) == [status |-> "Err", err |-> kind, img |-> NoImage, idx |-> 0]
Panic(msg) == [status |-> "Panic", err |-> msg, img |-> NoImage, idx |-> 0]
NoResult == [status |-> "None", err |-> "", img |-> NoImage, idx |-> 0]

\* GenericImageView::view(x, y, w, h) followed by to_image(): the bounds
\* are asserted, then the rectangle is copied into a fresh buffer
view(img, x, y, w, h) ==
    IF x + w > img.w \/ y + h > img.h
    THEN Panic("view out of bounds")
    ELSE Ok([w |-> w, h |-> h,
             px |-> Stored([p \in Coords(w, h) |-> img.px[<<x + p[1], y + p[2]>>]]),
             wr |-> Stored([p \in Coords(w, h) |-> 0])])

\* GenericImage::copy_from(other, x, y): bounds-checked, then every pixel of
\* other is put at (i + x, k + y)
copy_from(dst, other, x, y) ==
    IF dst.w < other.w + x \/ dst.h < other.h + y
    THEN Err("DimensionMismatch")
    ELSE LET hit(p) == p[1] >= x /\ p[1] < x + other.w /\ p[2] >= y /\ p[2] < y + other.h
         IN Ok([w |-> dst.w, h |-> dst.h,
                px |-> Stored([p \in Coords(dst.w, dst.h) |->
                          IF hit(p) THEN other.px[<<p[1] - x, p[2] - y>>] ELSE dst.px[p]]),
                wr |-> Stored([p \in Coords(dst.w, dst.h) |->
                          IF hit(p) THEN dst.wr[p] + 1 ELSE dst.wr[p]])])

\* ---------------------------------------------------------------- tables
\* the match of view_rpg4x6_cell: [left up, right up, left down, right down]
rpg4x6_table(mask) ==
    CASE mask = 0  -> << <<0, 0>>, <<1, 0>>, <<0, 1>>, <<1, 1>> >>
      [] mask = 1  -> << <<3, 5>>, <<1, 0>>, <<0, 1>>, <<1, 1>> >>
      [] mask = 2  -> << <<0, 0>>, <<0, 5>>, <<0, 1>>, <<1, 1>> >>
      [] mask = 3  -> << <<1, 5>>, <<2, 5>>, <<0, 1>>, <<1, 1>> >>
      [] mask = 4  -> << <<0, 0>>, <<1, 0>>, <<3, 2>>, <<1, 1>> >>
      [] mask = 5  -> << <<3, 3>>, <<1, 0>>, <<3, 4>>, <<1, 1>> >>
      [] mask = 6  -> << <<0, 0>>, <<0, 5>>, <<3, 2>>, <<1, 1>> >>
      [] mask = 7  -> << <<3, 1>>, <<2, 5>>, <<3, 4>>, <<1, 1>> >>
      [] mask = 8  -> << <<0, 0>>, <<1, 0>>, <<0, 1>>, <<0, 2>> >>
      [] mask = 9  -> << <<3, 5>>, <<1, 0>>, <<0, 1>>, <<0, 2>> >>
      [] mask = 10 -> << <<0, 0>>, <<0, 3>>, <<0, 1>>, <<0, 4>> >>
      [] mask = 11 -> << <<1, 5>>, <<2, 1>>, <<0, 1>>, <<0, 4>> >>
      [] mask = 12 -> << <<0, 0>>, <<1, 0>>, <<1, 2>>, <<2, 2>> >>
      [] mask = 13 -> << <<3, 3>>, <<1, 0>>, <<3, 0>>, <<2, 2>> >>
      [] mask = 14 -> << <<0, 0>>, <<0, 3>>, <<1, 2>>, <<2, 0>> >>
      [] mask = 15 -> << <<1, 3>>, <<2, 3>>, <<1, 4>>, <<2, 4>> >>

\* the sixteen index arrays of make_cache, cache slot by cache slot
make_cache_table(slot) ==
    CASE slot = 0  -> << <<0, 0>>, <<1, 0>>, <<0, 1>>, <<1, 1>> >>
      [] slot = 1  -> << <<3, 5>>, <<1, 0>>, <<0, 1>>, <<1, 1>> >>
      [] slot = 2  -> << <<0, 0>>, <<0, 5>>, <<0, 1>>, <<1, 1>> >>
      [] slot = 3  -> << <<1, 5>>, <<2, 5>>, <<0, 1>>, <<1, 1>> >>
      [] slot = 4  -> << <<0, 0>>, <<1, 0>>, <<3, 2>>, <<1, 1>> >>
      [] slot = 5  -> << <<3, 3>>, <<1, 0>>, <<3, 4>>, <<1, 1>> >>
      [] slot = 6  -> << <<0, 0>>, <<0, 5>>, <<3, 2>>, <<1, 1>> >>
      [] slot = 7  -> << <<3, 1>>, <<2, 5>>, <<3, 4>>, <<1, 1>> >>
      [] slot = 8  -> << <<0, 0>>, <<1, 0>>, <<0, 1>>, <<0, 2>> >>
      [] slot = 9  -> << <<3, 5>>, <<1, 0>>, <<0, 1>>, <<0, 2>> >>
      [] slot = 10 -> << <<0, 0>>, <<0, 3>>, <<0, 1>>, <<0, 4>> >>
      [] slot = 11 -> << <<1, 5>>, <<2, 1>>, <<0, 1>>, <<0, 4>> >>
      [] slot = 12 -> << <<0, 0>>, <<1, 0>>, <<1, 2>>, <<2, 2>> >>
      [] slot = 13 -> << <<3, 3>>, <<1, 0>>, <<3, 0>>, <<2, 2>> >>
      [] slot = 14 -> << <<0, 0>>, <<0, 3>>, <<1, 2>>, <<2, 0>> >>
      [] slot = 15 -> << <<1, 3>>, <<2, 3>>, <<1, 4>>, <<2, 4>> >>

\* ------------------------------------------------- quadrant compositing
\* the loop body of view_rpg4x6_cell for quadrants i .. 3 (0-based)
RECURSIVE view_rpg4x6_loop(_, _, _, _, _, _)
view_rpg4x6_loop(img, xs, width, height, i, out) ==
    IF i = 4 THEN Ok(out)
    ELSE LET v == view(img, xs[i + 1][1] * width, xs[i + 1][2] * height, width, height)
             x == (i % 2) * width
             y == (i \div 2) * height
         IN IF v.status # "Ok" THEN v
            ELSE LET c == copy_from(out, v.img, x, y)
                 IN IF c.status # "Ok" THEN c
                    ELSE view_rpg4x6_loop(img, xs, width, height, i + 1, c.img)

\* variant: the right-up and left-down table entries change places
view_rpg4x6_cell_swapped(img, mask) ==
    LET width == img.w \div 4
        height == img.h \div 6
        xs == rpg4x6_table(mask)
    IN IF mask \notin 0 .. 15 THEN Panic("unreachable")
       ELSE view_rpg4x6_loop(img, <<xs[1], xs[3], xs[2], xs[4]>>, width, height, 0,
                             NewImage(width * 2, height * 2))

view_rpg4x6_cell(img, mask) ==
    LET width == img.w \div 4
        height == img.h \div 6
    IN IF mask \notin 0 .. 15 THEN Panic("unreachable")
       ELSE view_rpg4x6_loop(img, rpg4x6_table(mask), width, height, 0,
                             NewImage(width * 2, height * 2))

cell_width(img) == img.w \div 4
cell_height(img) == img.h \div 6

\* the loop body of make_cell for quadrants i .. 3: get_pixel / put_pixel
\* over the cell rectangle, both of which panic outside their image
RECURSIVE make_cell_loop(_, _, _, _)
make_cell_loop(img, index, i, out) ==
    IF i = 4 THEN Ok(out)
    ELSE LET cw == cell_width(img)
             ch == cell_height(img)
             sx == index[i + 1][1] * cw
             sy == index[i + 1][2] * ch
             ox == (i % 2) * cw
             oy == (i \div 2) * ch
             hit(p) == p[1] >= ox /\ p[1] < ox + cw /\ p[2] >= oy /\ p[2] < oy + ch
         IN IF cw > 0 /\ ch > 0 /\ (sx + cw > img.w \/ sy + ch > img.h \/ ox + cw > out.w \/ oy + ch > out.h)
            THEN Panic("pixel out of bounds")
            ELSE make_cell_loop(img, index, i + 1,
                   [w |-> out.w, h |-> out.h,
                    px |-> Stored([p \in Coords(out.w, out.h) |->
                              IF hit(p) THEN img.px[<<sx + p[1] - ox, sy + p[2] - oy>>] ELSE out.px[p]]),
                    wr |-> Stored([p \in Coords(out.w, out.h) |->
                              IF hit(p) THEN out.wr[p] + 1 ELSE out.wr[p]])])

make_cell(img, index) ==
    make_cell_loop(img, index, 0, NewImage(cell_width(img) * 2, cell_height(img) * 2))

\* ------------------------------------------------------ grid_corner_set
\* make_wing_cell: the source cell (column, row) of the 4x4 wang grid that
\* is viewed for id
make_wing_table(id) ==
    CASE id = 0  -> <<0, 3>>
      [] id = 1  -> <<3, 3>>
      [] id = 2  -> <<0, 2>>
      [] id = 3  -> <<1, 2>>
      [] id = 4  -> <<0, 0>>
      [] id = 5  -> <<3, 2>>
      [] id = 6  -> <<2, 3>>
      [] id = 7  -> <<3, 1>>
      [] id = 8  -> <<1, 3>>
      [] id = 9  -> <<0, 1>>
      [] id = 10 -> <<1, 0>>
      [] id = 11 -> <<2, 2>>
      [] id = 12 -> <<3, 0>>
      [] id = 13 -> <<2, 0>>
      [] id = 14 -> <<1, 1>>
      [] id = 15 -> <<2, 1>>

\* variant: id 15 views the cell of id 14 again
make_wing_cell_repeated(img, id, s) ==
    IF id \notin 0 .. 15 THEN Panic("unreachable")
    ELSE IF id = 15 THEN view(img, 1 * s, 1 * s, s, s)
    ELSE view(img, make_wing_table(id)[1] * s, make_wing_table(id)[2] * s, s, s)

make_wing_cell(img, id, s) ==
    IF id \notin 0 .. 15 THEN Panic("unreachable")
    ELSE view(img, make_wing_table(id)[1] * s, make_wing_table(id)[2] * s, s, s)

RECURSIVE from_wang_loop(_, _, _, _)
from_wang_loop(wang, cell_size, i, out) ==
    IF i = 16 THEN Ok(out)
    ELSE LET v == make_wing_cell(wang, i, cell_size)
         IN IF v.status # "Ok" THEN v
            ELSE LET c == copy_from(out, v.img, i * cell_size, 0)
                 IN IF c.status # "Ok" THEN c
                    ELSE from_wang_loop(wang, cell_size, i + 1, c.img)

from_wang(wang) ==
    LET cell_size == wang.w \div 4
    IN IF wang.w % 4 # 0 \/ wang.w # wang.h
       THEN Err("DimensionError")
       ELSE from_wang_loop(wang, cell_size, 0, NewImage(cell_size * 16, cell_size))

\* ---------------------------------------------------------- rpg_maker_xp
RECURSIVE as_standard_loop(_, _, _, _)
as_standard_loop(img, cell_w, i, output) ==
    IF i = 16 THEN Ok(output)
    ELSE LET v == view_rpg4x6_cell(img, i)
         IN IF v.status # "Ok" THEN v
            ELSE LET c == copy_from(output, v.img, i * cell_w, 0)
                 IN IF c.status # "Ok" THEN c
                    ELSE as_standard_loop(img, cell_w, i + 1, c.img)

\* as_standard on a GridCornerRMVXFile whose fields are cell_w, cell_h
as_standard(cell_w, cell_h, img) ==
    as_standard_loop(img, cell_w, 0, NewImage(cell_w * 16, cell_h))

\* load_corner: debug is TRUE when debug assertions are compiled in,
\* readable is FALSE when image::open fails in get_image
load_corner(debug, readable, img, mask) ==
    IF debug /\ ~(mask >= 16)
    THEN Panic("corner mask is not in range [0b0000, 0b1111]")
    ELSE IF ~readable THEN Err("IoError")
         ELSE view_rpg4x6_cell(img, mask)

\* the match of rpg4x6_to_complete, one row per x, one entry per y
rpg4x6_complete_table ==
    <<
       << <<0, 2>>, <<0, 3>>, <<0, 4>>, <<0, 3>>, <<0, 4>>, <<0, 5>>, <<0, 2>>, <<0, 5>> >>,
       << <<3, 2>>, <<3, 3>>, <<3, 4>>, <<3, 3>>, <<3, 4>>, <<3, 5>>, <<3, 2>>, <<3, 5>> >>,
       << <<0, 2>>, <<0, 3>>, <<0, 4>>, <<0, 3>>, <<0, 4>>, <<0, 5>>, <<0, 2>>, <<0, 5>> >>,
       << <<1, 2>>, <<3, 1>>, <<3, 0>>, <<3, 1>>, <<3, 0>>, <<1, 5>>, <<1, 2>>, <<1, 5>> >>,
       << <<2, 2>>, <<2, 1>>, <<2, 0>>, <<2, 1>>, <<2, 0>>, <<2, 5>>, <<2, 2>>, <<2, 5>> >>,
       << <<1, 2>>, <<3, 1>>, <<3, 0>>, <<3, 1>>, <<3, 0>>, <<1, 5>>, <<1, 2>>, <<1, 5>> >>,
       << <<2, 2>>, <<2, 1>>, <<2, 0>>, <<2, 1>>, <<2, 0>>, <<2, 5>>, <<2, 2>>, <<2, 5>> >>,
       << <<3, 2>>, <<3, 3>>, <<3, 4>>, <<3, 3>>, <<3, 4>>, <<3, 5>>, <<3, 2>>, <<3, 5>> >>,
       << <<2, 4>>, <<2, 1>>, <<0, 4>>, <<0, 3>>, <<0, 4>>, <<0, 3>>, <<2, 0>>, <<2, 3>> >>,
       << <<3, 0>>, <<3, 1>>, <<3, 0>>, <<1, 3>>, <<1, 4>>, <<3, 1>>, <<3, 0>>, <<3, 1>> >>,
       << <<2, 2>>, <<2, 1>>, <<2, 0>>, <<2, 3>>, <<2, 4>>, <<2, 1>>, <<2, 0>>, <<2, 5>> >>,
       << <<1, 2>>, <<1, 3>>, <<1, 4>>, <<1, 3>>, <<1, 4>>, <<1, 3>>, <<1, 4>>, <<1, 5>> >>,
       << <<2, 2>>, <<2, 3>>, <<2, 4>>, <<2, 3>>, <<2, 4>>, <<2, 3>>, <<2, 4>>, <<2, 5>> >>,
       << <<1, 2>>, <<3, 1>>, <<3, 0>>, <<1, 3>>, <<1, 4>>, <<3, 1>>, <<3, 0>>, <<1, 5>> >>,
       << <<2, 0>>, <<2, 1>>, <<2, 0>>, <<2, 3>>, <<2, 4>>, <<2, 1>>, <<2, 0>>, <<2, 1>> >>,
       << <<1, 4>>, <<3, 1>>, <<3, 4>>, <<3, 3>>, <<3, 4>>, <<3, 3>>, <<3, 0>>, <<1, 3>> >>,
       << <<0, 2>>, <<0, 3>>, <<0, 4>>, <<0, 3>>, <<2, 0>>, <<2, 1>>, <<0, 4>>, <<0, 5>> >>,
       << <<1, 2>>, <<1, 3>>, <<1, 4>>, <<1, 3>>, <<1, 4>>, <<1, 3>>, <<1, 4>>, <<1, 5>> >>,
       << <<2, 0>>, <<2, 3>>, <<2, 0>>, <<2, 3>>, <<2, 4>>, <<2, 3>>, <<2, 4>>, <<2, 5>> >>,
       << <<3, 0>>, <<1, 3>>, <<1, 4>>, <<3, 1>>, <<1, 4>>, <<1, 3>>, <<1, 4>>, <<1, 5>> >>,
       << <<2, 2>>, <<2, 3>>, <<0, 0>>, <<0, 1>>, <<2, 4>>, <<2, 1>>, <<2, 4>>, <<2, 1>> >>,
       << <<1, 2>>, <<1, 3>>, <<1, 0>>, <<1, 1>>, <<3, 0>>, <<1, 3>>, <<1, 4>>, <<3, 1>> >>,
       << <<2, 2>>, <<2, 3>>, <<2, 4>>, <<2, 3>>, <<2, 4>>, <<2, 3>>, <<2, 4>>, <<2, 5>> >>,
       << <<3, 2>>, <<3, 3>>, <<3, 0>>, <<3, 1>>, <<3, 4>>, <<3, 3>>, <<3, 4>>, <<3, 5>> >>
    >>

\* variant: the last row of column 0 is one row too low
rpg4x6_to_complete_low(x, y) ==
    IF x \in 0 .. 23 /\ y \in 0 .. 7
    THEN IF x = 0 /\ y = 7 THEN <<0, 6>> ELSE rpg4x6_complete_table[x + 1][y + 1]
    ELSE <<-1, -1>>

\* rpg4x6_to_complete: outside the 24x8 domain the match is unreachable!(),
\* shown here as <<-1, -1>>
rpg4x6_to_complete(x, y) ==
    IF x \in 0 .. 23 /\ y \in 0 .. 7
    THEN rpg4x6_complete_table[x + 1][y + 1]
    ELSE <<-1, -1>>

\* the inner loop of make_complete, for j in j..L of column i; view asserts
\* its bounds and copy_from(..).unwrap() panics on an error
RECURSIVE make_complete_rows(_, _, _, _, _, _)
make_complete_rows(img, width, height, i, j, output) ==
    IF j = 8 THEN Ok(output)
    ELSE LET xy == rpg4x6_to_complete(i, j)
         IN IF xy = <<-1, -1>> THEN Panic("unreachable")
            ELSE LET v == view(img, xy[1] * width, xy[2] * height, width, height)
                 IN IF v.status # "Ok" THEN v
                    ELSE LET c == copy_from(output, v.img, i * width, j * height)
                         IN IF c.status # "Ok" THEN Panic("unwrap on Err")
                            ELSE make_complete_rows(img, width, height, i, j + 1, c.img)

\* the outer loop of make_complete, for i in i..C
RECURSIVE make_complete_loop(_, _, _, _, _)
make_complete_loop(img, width, height, i, output) ==
    IF i = 24 THEN Ok(output)
    ELSE LET col == make_complete_rows(img, width, height, i, 0, output)
         IN IF col.status # "Ok" THEN col
            ELSE make_complete_loop(img, width, height, i + 1, col.img)

make_complete(img, width, height) ==
    make_complete_loop(img, width, height, 0, NewImage(width * 24, height * 8))

\* ------------------------------------------------------------------ flat
B(b) == IF b THEN 1 ELSE 0

\* u8 arithmetic: x << n and a | b
Shl8(x, n) == (x * (2 ^ n)) % 256
Bit(x, i) == (x \div (2 ^ i)) % 2

RECURSIVE BitOr8From(_, _, _)
BitOr8From(a, b, i) ==
    IF i = 8 THEN 0
    ELSE (IF Bit(a, i) = 1 \/ Bit(b, i) = 1 THEN 2 ^ i ELSE 0) + BitOr8From(a, b, i + 1)

BitOr8(a, b) == BitOr8From(a, b, 0)

\* variant: ru and ld shifted into each other's bit
corner_index_swapped(lu, ru, ld, rd) ==
    BitOr8(BitOr8(BitOr8(Shl8(B(rd), 3), Shl8(B(ru), 2)), Shl8(B(ld), 1)), B(lu))

\* the index computed by TilesetEdge2::get_corner
corner_index(lu, ru, ld, rd) ==
    BitOr8(BitOr8(BitOr8(Shl8(B(rd), 3), Shl8(B(ld), 2)), Shl8(B(ru), 1)), B(lu))

NoTileset == [loaded |-> FALSE, image |-> NoImage, cache |-> [i \in 0 .. 15 |-> NoImage]]

\* get_corner: cache.get_unchecked(index); an index outside the array is
\* undefined behaviour
get_corner(ts, lu, ru, ld, rd) ==
    LET index == corner_index(lu, ru, ld, rd)
    IN IF index \in 0 .. 15
       THEN [status |-> "Ok", err |-> "", img |-> ts.cache[index], idx |-> index]
       ELSE [status |-> "UB", err |-> "get_unchecked out of range", img |-> NoImage, idx |-> index]

get_side(ts, r, u, l, d) ==
    LET lu == l /\ u
        ru == r /\ u
        ld == l /\ d
        rd == r /\ d
    IN get_corner(ts, lu, ld, ru, rd)

\* make_cache: sixteen make_cell calls; the first panic aborts
make_cache(img) == [i \in 0 .. 15 |-> make_cell(img, make_cache_table(i))]

from_rpg_maker(img) ==
    IF img.w % 4 # 0 THEN Panic("image width does not divide by 4")
    ELSE IF img.h % 6 # 0 THEN Panic("image height does not divide by 6")
    ELSE IF \E i \in 0 .. 15 : make_cache(img)[i].status # "Ok" THEN Panic("pixel out of bounds")
    ELSE Ok(img)

tileset_of(img) ==
    [loaded |-> TRUE, image |-> img, cache |-> [i \in 0 .. 15 |-> make_cache(img)[i].img]]

\* load: readable is FALSE when image::open fails
load(readable, img) ==
    IF ~readable THEN Err("IoError")
    ELSE IF img.w % 4 # 0 \/ img.h % 6 # 0 THEN Err("DimensionError")
    ELSE from_rpg_maker(img)

\* ------------------------------------------------------------ state
Widths == 1 .. 4 * MaxCell
Heights == 1 .. 6 * MaxCell
CellSizes == 1 .. MaxCell + 1
Masks == 0 .. 16

Idle == [op |-> "idle", mask |-> 0, cell_w |-> 0, cell_h |-> 0, debug |-> FALSE,
         readable |-> TRUE, b |-> <<FALSE, FALSE, FALSE, FALSE>>]

EmptyMap == [n \in {} |-> 0]

\* the descriptor file TileSet.json5: absent, truncated by File::create, or
\* holding one complete document
NoDescriptor == [state |-> "absent", target |-> <<0, 0>>, entries |-> EmptyMap]
Truncated == [state |-> "truncated", target |-> <<0, 0>>, entries |-> EmptyMap]

\* FileSystemTiles::default
RegistryInit ==
    /\ atlas = EmptyMap
    /\ target = <<32, 32>>
    /\ descriptor = NoDescriptor
    /\ calls = 0
    /\ pc = EmptyMap
    /\ snap = EmptyMap

Init ==
    /\ call = Idle
    /\ raw = NoImage
    /\ ret = NoResult
    /\ tileset = NoTileset
    /\ RegistryInit

RegistryVars == <<atlas, target, descriptor, calls, pc, snap>>

\* ------------------------------------------------- conversion actions
ViewCell ==
    \E w \in Widths, h \in Heights, mask \in Masks :
        /\ call.op = "idle"
        /\ raw' = SourceImage(w, h)
        /\ call' = [Idle EXCEPT !.op = "view_rpg4x6_cell", !.mask = mask]
        /\ ret' = view_rpg4x6_cell(raw', mask)
        /\ UNCHANGED <<tileset, RegistryVars>>

\* make_cell is unsafe: its callers have checked the dimensions
MakeCell ==
    \E w \in Widths, h \in Heights, slot \in 0 .. 15 :
        /\ call.op = "idle"
        /\ w % 4 = 0 /\ h % 6 = 0
        /\ raw' = SourceImage(w, h)
        /\ call' = [Idle EXCEPT !.op = "make_cell", !.mask = slot]
        /\ ret' = make_cell(raw', make_cache_table(slot))
        /\ UNCHANGED <<tileset, RegistryVars>>

AsStandard ==
    \E w \in Widths, h \in Heights, cw \in CellSizes, ch \in CellSizes :
        /\ call.op = "idle"
        /\ raw' = SourceImage(w, h)
        /\ call' = [Idle EXCEPT !.op = "as_standard", !.cell_w = cw, !.cell_h = ch]
        /\ ret' = as_standard(cw, ch, raw')
        /\ UNCHANGED <<tileset, RegistryVars>>

LoadCorner ==
    \E w \in Widths, h \in Heights, mask \in Masks, debug \in BOOLEAN, readable \in BOOLEAN :
        /\ call.op = "idle"
        /\ raw' = SourceImage(w, h)
        /\ call' = [Idle EXCEPT !.op = "load_corner", !.mask = mask, !.debug = debug,
                                !.readable = readable]
        /\ ret' = load_corner(debug, readable, raw', mask)
        /\ UNCHANGED <<tileset, RegistryVars>>

FromWang ==
    \E w \in Widths, h \in Heights :
        /\ call.op = "idle"
        /\ raw' = SourceImage(w, h)
        /\ call' = [Idle EXCEPT !.op = "from_wang"]
        /\ ret' = from_wang(raw')
        /\ UNCHANGED <<tileset, RegistryVars>>

\* the raw image is the 4x6 sheet of the given cell size, or one pixel
\* short of it in width and/or height
MakeComplete ==
    \E width \in 1 .. MaxCell, height \in 1 .. MaxCell, sw \in 0 .. 1, sh \in 0 .. 1 :
        /\ call.op = "idle"
        /\ raw' = SourceImage(4 * width - sw, 6 * height - sh)
        /\ call' = [Idle EXCEPT !.op = "make_complete", !.cell_w = width, !.cell_h = height]
        /\ ret' = make_complete(raw', width, height)
        /\ UNCHANGED <<tileset, RegistryVars>>

NextConvert == ViewCell \/ MakeCell \/ AsStandard \/ LoadCorner \/ FromWang \/ MakeComplete

SpecConvert == Init /\ [][NextConvert]_vars

\* ---------------------------------------------------- tileset actions
FromRpgMaker ==
    \E w \in Widths, h \in Heights :
        /\ ~tileset.loaded
        /\ call.op = "idle"
        /\ raw' = SourceImage(w, h)
        /\ call' = [Idle EXCEPT !.op = "from_rpg_maker"]
        /\ ret' = from_rpg_maker(raw')
        /\ tileset' = IF ret'.status = "Ok" THEN tileset_of(raw') ELSE tileset
        /\ UNCHANGED RegistryVars

Load ==
    \E w \in Widths, h \in Heights, readable \in BOOLEAN :
        /\ ~tileset.loaded
        /\ call.op = "idle"
        /\ raw' = SourceImage(w, h)
        /\ call' = [Idle EXCEPT !.op = "load", !.readable = readable]
        /\ ret' = load(readable, raw')
        /\ tileset' = IF ret'.status = "Ok" THEN tileset_of(raw') ELSE tileset
        /\ UNCHANGED RegistryVars

GetCorner ==
    \E lu \in BOOLEAN, ru \in BOOLEAN, ld \in BOOLEAN, rd \in BOOLEAN :
        /\ tileset.loaded
        /\ call' = [Idle EXCEPT !.op = "get_corner", !.b = <<lu, ru, ld, rd>>]
        /\ ret' = get_corner(tileset, lu, ru, ld, rd)
        /\ UNCHANGED <<raw, tileset, RegistryVars>>

GetSide ==
    \E r \in BOOLEAN, u \in BOOLEAN, l \in BOOLEAN, d \in BOOLEAN :
        /\ tileset.loaded
        /\ call' = [Idle EXCEPT !.op = "get_side", !.b = <<r, u, l, d>>]
        /\ ret' = get_side(tileset, r, u, l, d)
        /\ UNCHANGED <<raw, tileset, RegistryVars>>

NextTileset == FromRpgMaker \/ Load \/ GetCorner \/ GetSide

SpecTileset == Init /\ [][NextTileset]_vars

\* ------------------------------------------------------------ registry
Names == {"grass", "water"}
Kinds == {"SimpleSet", "Animation", "GridCornerWang", "GridEdge", "GridEdgeWang"}
\* a TileAtlasData value: its variant and the key stored inside it
AtlasData == [kind : Kinds, key : Names]
IoOutcomes == {"ok", "create_fail", "serialize_fail"}

GeomVars == <<raw, tileset>>

\* the document written by serializing the registry: every entry by name
\* and kind, plus the target size
Serialize(map, size) ==
    [state |-> "written", target |-> size, entries |-> [n \in DOMAIN map |-> map[n].kind]]

\* write_json: File::create, then serialize into the file. io is the
\* outcome of the file system: "create_fail" leaves the file alone and
\* surfaces the io::Error, "serialize_fail" leaves a truncated file and
\* returns InvalidInput
write_json(map, size, file, io) ==
    IF io = "create_fail"
    THEN [status |-> "Err", err |-> "IoError", file |-> file, attempts |-> 1]
    ELSE IF io = "serialize_fail"
         THEN [status |-> "Err", err |-> "InvalidInput", file |-> Truncated, attempts |-> 1]
         ELSE [status |-> "Ok", err |-> "", file |-> Serialize(map, size), attempts |-> 1]

get_target_size(size) == <<size[1], size[2]>>

\* variant: the height is stored without the zero check
set_target_size_unchecked_height(map, size, file, width, height, io) ==
    IF width = 0
    THEN [status |-> "Err", err |-> "InvalidInput", target |-> size, file |-> file, attempts |-> 0]
    ELSE LET w == write_json(map, <<width, height>>, file, io)
         IN [status |-> w.status, err |-> w.err, target |-> <<width, height>>,
             file |-> w.file, attempts |-> w.attempts]

\* set_target_size: NonZeroU32::new(width) is checked and stored before
\* NonZeroU32::new(height) is looked at
set_target_size(map, size, file, width, height, io) ==
    IF width = 0
    THEN [status |-> "Err", err |-> "InvalidInput", target |-> size, file |-> file, attempts |-> 0]
    ELSE IF height = 0
         THEN [status |-> "Err", err |-> "InvalidInput", target |-> <<width, size[2]>>,
               file |-> file, attempts |-> 0]
         ELSE LET w == write_json(map, <<width, height>>, file, io)
              IN [status |-> w.status, err |-> w.err, target |-> <<width, height>>,
                  file |-> w.file, attempts |-> w.attempts]

\* DashMap::insert
map_insert(map, name, data) ==
    [n \in DOMAIN map \cup {name} |-> IF n = name THEN data ELSE map[n]]

\* variant: the map insert is undone when the descriptor write fails
insert_atlas_rollback(map, size, file, name, data, io) ==
    LET m == map_insert(map, name, data)
        w == write_json(m, size, file, io)
    IN [status |-> w.status, err |-> w.err, atlas |-> IF w.status = "Ok" THEN m ELSE map,
        file |-> w.file, attempts |-> w.attempts]

\* insert_atlas: the map insert, then write_json()?
insert_atlas(map, size, file, name, data, io) ==
    LET m == map_insert(map, name, data)
        w == write_json(m, size, file, io)
    IN [status |-> w.status, err |-> w.err, atlas |-> m, file |-> w.file, attempts |-> w.attempts]

NoData == [kind |-> "", key |-> ""]

get_atlas(map, name) ==
    IF name \in DOMAIN map
    THEN [status |-> "Some", err |-> "", data |-> map[name], name |-> ""]
    ELSE [status |-> "None", err |-> "", data |-> NoData, name |-> ""]

\* TileAtlasData::get_name
get_name(data) ==
    IF data.kind = "GridCornerWang"
    THEN [status |-> "Panic", err |-> "not yet implemented", data |-> data, name |-> ""]
    ELSE [status |-> "Ok", err |-> "", data |-> data, name |-> data.key]

RegCall(op) == [op |-> op, name |-> "", data |-> NoData, width |-> 0, height |-> 0, io |-> "ok"]

SetTargetSize ==
    \E width \in 0 .. MaxSize, height \in 0 .. MaxSize, io \in IoOutcomes :
        /\ calls < MaxCalls
        /\ (width = 0 \/ height = 0) => io = "ok"
        /\ LET r == set_target_size(atlas, target, descriptor, width, height, io)
           IN /\ target' = r.target
              /\ descriptor' = r.file
              /\ ret' = [status |-> r.status, err |-> r.err, attempts |-> r.attempts]
        /\ call' = [RegCall("set_target_size") EXCEPT !.width = width, !.height = height, !.io = io]
        /\ calls' = calls + 1
        /\ UNCHANGED <<atlas, pc, snap, GeomVars>>

InsertAtlas ==
    \E name \in Names, data \in AtlasData, io \in IoOutcomes :
        /\ calls < MaxCalls
        /\ LET r == insert_atlas(atlas, target, descriptor, name, data, io)
           IN /\ atlas' = r.atlas
              /\ descriptor' = r.file
              /\ ret' = [status |-> r.status, err |-> r.err, attempts |-> r.attempts]
        /\ call' = [RegCall("insert_atlas") EXCEPT !.name = name, !.data = data, !.io = io]
        /\ calls' = calls + 1
        /\ UNCHANGED <<target, pc, snap, GeomVars>>

GetAtlas ==
    \E name \in Names :
        /\ call' = [RegCall("get_atlas") EXCEPT !.name = name]
        /\ ret' = get_atlas(atlas, name)
        /\ UNCHANGED <<atlas, target, descriptor, calls, pc, snap, GeomVars>>

\* get_atlas(name) followed by get_name() on the copy it returned
GetName ==
    \E name \in Names :
        /\ name \in DOMAIN atlas
        /\ call' = [RegCall("get_name") EXCEPT !.name = name]
        /\ ret' = get_name(get_atlas(atlas, name).data)
        /\ UNCHANGED <<atlas, target, descriptor, calls, pc, snap, GeomVars>>

NextRegistry == SetTargetSize \/ InsertAtlas \/ GetAtlas \/ GetName

SpecRegistry == Init /\ [][NextRegistry]_vars

\* --------------------------------------------- concurrent insert_atlas
Threads == 1 .. NThreads
ThreadKinds == {"SimpleSet", "GridCornerWang"}

IdleThread == [at |-> "idle", name |-> "", status |-> ""]

InitConc ==
    /\ call = Idle
    /\ raw = NoImage
    /\ ret = NoResult
    /\ tileset = NoTileset
    /\ atlas = EmptyMap
    /\ target = <<32, 32>>
    /\ descriptor = NoDescriptor
    /\ calls = 0
    /\ pc = [t \in Threads |-> IdleThread]
    /\ snap = [t \in Threads |-> NoDescriptor]

ConcFrame == <<call, raw, ret, tileset, target, calls>>

\* insert_atlas, first statement: self.atlas.insert(file.to_string(), data)
TInsert(t) ==
    \E name \in Names, kind \in ThreadKinds :
        /\ pc[t].at = "idle"
        /\ atlas' = map_insert(atlas, name, [kind |-> kind, key |-> name])
        /\ pc' = [pc EXCEPT ![t] = [at |-> "inserted", name |-> name, status |-> ""]]
        /\ UNCHANGED <<descriptor, snap, ConcFrame>>

\* write_json, File::create: truncates the descriptor, or fails
TCreate(t) ==
    /\ pc[t].at = "inserted"
    /\ \/ /\ descriptor' = Truncated
          /\ pc' = [pc EXCEPT ![t].at = "created"]
       \/ /\ descriptor' = descriptor
          /\ pc' = [pc EXCEPT ![t].at = "done", ![t].status = "IoError"]
    /\ UNCHANGED <<atlas, snap, ConcFrame>>

\* write_json, self.serialize: the registry is read into the document
TSerialize(t) ==
    /\ pc[t].at = "created"
    /\ \/ /\ snap' = [snap EXCEPT ![t] = Serialize(atlas, target)]
          /\ pc' = [pc EXCEPT ![t].at = "serialized"]
       \/ /\ snap' = snap
          /\ pc' = [pc EXCEPT ![t].at = "done", ![t].status = "InvalidInput"]
    /\ UNCHANGED <<atlas, descriptor, ConcFrame>>

\* write_json: the document reaches the file, insert_atlas returns Ok
TWrite(t) ==
    /\ pc[t].at = "serialized"
    /\ descriptor' = snap[t]
    /\ pc' = [pc EXCEPT ![t].at = "done", ![t].status = "Ok"]
    /\ UNCHANGED <<atlas, snap, ConcFrame>>

NextConc == \E t \in Threads : TInsert(t) \/ TCreate(t) \/ TSerialize(t) \/ TWrite(t)

SpecConc == InitConc /\ [][NextConc]_vars

\* ------------------------------------------------- standard strip query
\* the query of the standard strip: the slice at x = mask * cell_w
get_by_mask(strip, mask, cell_w, cell_h) == view(strip, mask * cell_w, 0, 2 * cell_w, 2 * cell_h)

\* ================================================================ claims
Divisible == raw.w % 4 = 0 /\ raw.h % 6 = 0

\* C1: the index of get_corner is (rd<<3)|(ld<<2)|(ru<<1)|lu: it lies in
\* 0..15 (the unchecked cache access is in range), its bits 0,1,2,3 decode
\* to lu,ru,ld,rd, and no other quadruple has the same index.
C1_CornerMaskBijection ==
    call.op = "get_corner" =>
        LET lu == call.b[1]
            ru == call.b[2]
            ld == call.b[3]
            rd == call.b[4]
        IN /\ ret.status = "Ok"
           /\ ret.idx \in 0 .. 15
           /\ ret.idx = 8 * B(rd) + 4 * B(ld) + 2 * B(ru) + B(lu)
           /\ ret.idx % 2 = B(lu)
           /\ (ret.idx \div 2) % 2 = B(ru)
           /\ (ret.idx \div 4) % 2 = B(ld)
           /\ (ret.idx \div 8) % 2 = B(rd)
           /\ \A q \in BOOLEAN \X BOOLEAN \X BOOLEAN \X BOOLEAN :
                  q # call.b => corner_index(q[1], q[2], q[3], q[4]) # ret.idx
           /\ SamePixels(ret.img, tileset.cache[ret.idx])

C1_Witness ==
    call.op = "get_corner" /\ call.b = <<TRUE, FALSE, TRUE, TRUE>> /\ ret.idx = 13

\* C2: get_side(r,u,l,d) returns the cell at the canonical index of the
\* AND-derived corners, the same cell as get_corner(l&&u, r&&u, l&&d, r&&d).
C2_SideCanonical ==
    call.op = "get_side" =>
        LET r == call.b[1]
            u == call.b[2]
            l == call.b[3]
            d == call.b[4]
        IN /\ ret.idx = 8 * B(r /\ d) + 4 * B(l /\ d) + 2 * B(r /\ u) + B(l /\ u)
           /\ ret = get_corner(tileset, l /\ u, r /\ u, l /\ d, r /\ d)

\* C3: for a 4*cw x 6*ch source and a mask in 0..15 the composite cell of
\* view_rpg4x6_cell / make_cell is 2*cw x 2*ch, quadrant i holds the source
\* cell of table coordinate i pixel for pixel, mask 0 uses the cells
\* (0,0),(1,0),(0,1),(1,1), and every output pixel is written exactly once.
C3_QuadrantCompositing ==
    (call.op \in {"view_rpg4x6_cell", "make_cell"} /\ Divisible /\ call.mask \in 0 .. 15) =>
        LET cw == raw.w \div 4
            ch == raw.h \div 6
            xs == IF call.op = "make_cell" THEN make_cache_table(call.mask)
                                           ELSE rpg4x6_table(call.mask)
        IN /\ ret.status = "Ok"
           /\ ret.img.w = 2 * cw
           /\ ret.img.h = 2 * ch
           /\ \A i \in 0 .. 3, dx \in 0 .. cw - 1, dy \in 0 .. ch - 1 :
                  ret.img.px[<<(i % 2) * cw + dx, (i \div 2) * ch + dy>>]
                      = raw.px[<<xs[i + 1][1] * cw + dx, xs[i + 1][2] * ch + dy>>]
           /\ call.mask = 0 => xs = << <<0, 0>>, <<1, 0>>, <<0, 1>>, <<1, 1>> >>
           /\ \A p \in Coords(2 * cw, 2 * ch) : ret.img.wr[p] = 1

C3_Witness ==
    /\ call.op = "view_rpg4x6_cell"
    /\ call.mask = 0
    /\ raw.w = 8 /\ raw.h = 12
    /\ ret.status = "Ok"
    /\ ret.img.w = 4 /\ ret.img.h = 4
    /\ ret.img.px[<<2, 0>>] = raw.px[<<2, 0>>]
    /\ ret.img.px[<<1, 3>>] = raw.px[<<1, 3>>]

\* C4: as_standard with cell size (cw, ch) on a 4*cw x 6*ch source succeeds
\* with a 16*cw x ch strip whose slot mask is a 2*cw x 2*ch cell identical
\* to view_rpg4x6_cell(source, mask), for every mask.
C4_RoundTrip ==
    (call.op = "as_standard" /\ call.cell_w >= 1 /\ call.cell_h >= 1
        /\ raw.w = 4 * call.cell_w /\ raw.h = 6 * call.cell_h) =>
        /\ ret.status = "Ok"
        /\ ret.img.w = 16 * call.cell_w
        /\ ret.img.h = call.cell_h
        /\ \A mask \in 0 .. 15 :
               LET q == get_by_mask(ret.img, mask, call.cell_w, call.cell_h)
               IN /\ q.status = "Ok"
                  /\ q.img.w = 2 * call.cell_w
                  /\ q.img.h = 2 * call.cell_h
                  /\ SamePixels(q.img, view_rpg4x6_cell(raw, mask).img)

\* C5: every conversion entry point rejects a source whose width or height
\* is not a multiple of the layout's columns/rows with a DimensionError
\* value and no output image.
C5_DimensionValidation ==
    LET bad4x6 == raw.w % 4 # 0 \/ raw.h % 6 # 0
        bad4x4 == raw.w % 4 # 0 \/ raw.h % 4 # 0
    IN /\ (call.op = "from_wang" /\ bad4x4) =>
              (ret.status = "Err" /\ ret.err = "DimensionError" /\ ret.img = NoImage)
       /\ (call.op \in {"load", "from_rpg_maker", "as_standard"} /\ call.readable /\ bad4x6) =>
              (ret.status = "Err" /\ ret.err = "DimensionError" /\ ret.img = NoImage)
       /\ (call.op = "view_rpg4x6_cell" /\ call.mask \in 0 .. 15 /\ bad4x6) =>
              (ret.status = "Err" /\ ret.err = "DimensionError" /\ ret.img = NoImage)

\* C6: get_atlas(n) returns the variant most recently inserted under n and
\* None for a name never inserted, get_name() of a variant stored under its
\* own key n is n, and no registry call panics, whatever the variant kind.
C6_InsertGet ==
    /\ (call.op \in {"insert_atlas", "get_atlas", "get_name"}) => ret.status # "Panic"
    /\ call.op = "insert_atlas" =>
           (get_atlas(atlas, call.name).status = "Some"
               /\ get_atlas(atlas, call.name).data = call.data)
    /\ call.op = "get_atlas" =>
           IF call.name \in DOMAIN atlas
           THEN ret.status = "Some" /\ ret.data = atlas[call.name]
           ELSE ret.status = "None"
    /\ (call.op = "get_name" /\ atlas[call.name].key = call.name) =>
           (ret.status = "Ok" /\ ret.name = call.name)

\* C7 as stated: set_target_size returns an InvalidInput error if and only
\* if width = 0 or height = 0; with both non-zero and a successful write it
\* returns Ok, get_target_size() is (width, height) and the descriptor
\* shows that size.
C7_Original ==
    call.op = "set_target_size" =>
        /\ (ret.status = "Err" /\ ret.err = "InvalidInput") <=> (call.width = 0 \/ call.height = 0)
        /\ (call.width > 0 /\ call.height > 0 /\ call.io = "ok") =>
               /\ ret.status = "Ok"
               /\ get_target_size(target) = <<call.width, call.height>>
               /\ descriptor.state = "written"
               /\ descriptor.target = <<call.width, call.height>>

\* C7 amended: set_target_size returns an InvalidInput error whenever
\* width = 0 or height = 0; with both non-zero its result is that of the
\* descriptor write: Ok when the write succeeds (then get_target_size() is
\* (width, height) and the descriptor shows it), otherwise an error, which
\* is again of kind InvalidInput when the serialisation fails.
C7_SetTargetSize ==
    call.op = "set_target_size" =>
        /\ (call.width = 0 \/ call.height = 0) => (ret.status = "Err" /\ ret.err = "InvalidInput")
        /\ (call.width > 0 /\ call.height > 0 /\ call.io = "ok") =>
               /\ ret.status = "Ok"
               /\ get_target_size(target) = <<call.width, call.height>>
               /\ descriptor.state = "written"
               /\ descriptor.target = <<call.width, call.height>>
        /\ (call.width > 0 /\ call.height > 0 /\ call.io # "ok") =>
               /\ ret.status = "Err"
               /\ call.io = "serialize_fail" => ret.err = "InvalidInput"
               /\ call.io = "create_fail" => ret.err = "IoError"

C7_Witness ==
    /\ call.op = "set_target_size"
    /\ call.width = 1 /\ call.height = 2
    /\ ret.status = "Ok"
    /\ target = <<1, 2>>
    /\ descriptor.target = <<1, 2>>

\* C8: when concurrent insert_atlas calls on different names have all
\* returned Ok, the descriptor on disk enumerates every name of the
\* in-memory registry.
C8_NoLostDescriptorUpdate ==
    ((\A t \in Threads : pc[t].at = "done" /\ pc[t].status = "Ok")
        /\ (\A t, u \in Threads : t # u => pc[t].name # pc[u].name)) =>
        /\ descriptor.state = "written"
        /\ DOMAIN atlas \subseteq DOMAIN descriptor.entries

\* C9: a failed descriptor rewrite in insert_atlas(name, data) returns an
\* error and keeps the in-memory insert (get_atlas(name) is data); the other
\* entries and the target size are unchanged; each insert_atlas and each
\* validated set_target_size attempts exactly one rewrite, made after the
\* in-memory change.
C9_NonTransactional ==
    [][/\ (calls' = calls + 1 /\ call'.op = "insert_atlas") =>
              /\ ret'.attempts = 1
              /\ call'.io # "ok" => ret'.status = "Err"
              /\ get_atlas(atlas', call'.name).status = "Some"
              /\ get_atlas(atlas', call'.name).data = call'.data
              /\ DOMAIN atlas' = DOMAIN atlas \cup {call'.name}
              /\ \A n \in DOMAIN atlas \ {call'.name} : atlas'[n] = atlas[n]
              /\ target' = target
              /\ ret'.status = "Ok" => descriptor' = Serialize(atlas', target')
       /\ (calls' = calls + 1 /\ call'.op = "set_target_size"
              /\ call'.width > 0 /\ call'.height > 0) =>
              /\ ret'.attempts = 1
              /\ call'.io # "ok" => ret'.status = "Err"
              /\ target' = <<call'.width, call'.height>>
              /\ atlas' = atlas
              /\ ret'.status = "Ok" => descriptor' = Serialize(atlas', target')
      ]_vars

C9_Witness ==
    /\ call.op = "insert_atlas"
    /\ ret.status = "Err"
    /\ call.name \in DOMAIN atlas
    /\ atlas[call.name] = call.data
    /\ Cardinality(DOMAIN atlas) = 2

\* C10: load_corner with a mask in 0..15 on a readable image passes its
\* range assertion and returns Ok with the composite cell of that mask; a
\* mask of 16 or more is the only input the assertion rejects.
C10_LoadCornerTyped ==
    (call.op = "load_corner" /\ call.readable) =>
        /\ call.mask \in 0 .. 15 =>
               (ret.status = "Ok" /\ SamePixels(ret.img, view_rpg4x6_cell(raw, call.mask).img))
        /\ (ret.status = "Panic" /\ ret.err = "corner mask is not in range [0b0000, 0b1111]") =>
               call.mask >= 16

\* C11: a set_target_size call with width = 0 or height = 0 leaves
\* get_target_size() as it was and attempts no descriptor rewrite; in every
\* state both target components are > 0, and after a validated call they
\* are that call's arguments.
C11_FailedSetKeepsTarget ==
    [][/\ (calls' = calls + 1 /\ call'.op = "set_target_size"
              /\ (call'.width = 0 \/ call'.height = 0)) =>
              /\ ret'.status = "Err"
              /\ get_target_size(target') = get_target_size(target)
              /\ ret'.attempts = 0
              /\ descriptor' = descriptor
       /\ (calls' = calls + 1 /\ call'.op = "set_target_size"
              /\ call'.width > 0 /\ call'.height > 0) =>
              get_target_size(target') = <<call'.width, call'.height>>
       /\ target'[1] > 0 /\ target'[2] > 0
      ]_vars

\* the reference table in the doc comment of view_rpg4x6_cell: 1-based
\* (column, row) for [left up, right up, left down, right down]
rpg4x6_doc_table(mask) ==
    CASE mask = 0  -> << <<1, 1>>, <<2, 1>>, <<1, 2>>, <<2, 2>> >>
      [] mask = 1  -> << <<4, 6>>, <<2, 1>>, <<1, 2>>, <<2, 2>> >>
      [] mask = 2  -> << <<1, 1>>, <<1, 6>>, <<1, 2>>, <<2, 2>> >>
      [] mask = 3  -> << <<2, 6>>, <<3, 6>>, <<1, 2>>, <<2, 2>> >>
      [] mask = 4  -> << <<1, 1>>, <<2, 1>>, <<4, 3>>, <<2, 2>> >>
      [] mask = 5  -> << <<4, 4>>, <<2, 1>>, <<4, 3>>, <<2, 2>> >>
      [] mask = 6  -> << <<1, 1>>, <<2, 1>>, <<3, 4>>, <<2, 2>> >>
      [] mask = 7  -> << <<2, 4>>, <<3, 4>>, <<4, 3>>, <<2, 2>> >>
      [] mask = 8  -> << <<1, 1>>, <<2, 1>>, <<1, 2>>, <<1, 3>> >>
      [] mask = 9  -> << <<4, 6>>, <<2, 1>>, <<1, 2>>, <<1, 3>> >>
      [] mask = 10 -> << <<1, 1>>, <<1, 6>>, <<1, 2>>, <<1, 5>> >>
      [] mask = 11 -> << <<2, 6>>, <<3, 6>>, <<1, 2>>, <<1, 5>> >>
      [] mask = 12 -> << <<1, 1>>, <<2, 1>>, <<4, 3>>, <<3, 3>> >>
      [] mask = 13 -> << <<4, 4>>, <<2, 1>>, <<4, 3>>, <<3, 3>> >>
      [] mask = 14 -> << <<1, 1>>, <<2, 1>>, <<3, 4>>, <<3, 1>> >>
      [] mask = 15 -> << <<2, 4>>, <<3, 4>>, <<4, 3>>, <<3, 5>> >>

\* C12: for every mask and quadrant the 0-based (column, row) used by
\* view_rpg4x6_cell is the 1-based pair of its doc table minus (1, 1), and
\* lies inside the 4x6 reference grid.
C12_TableMatchesDoc ==
    (call.op = "view_rpg4x6_cell" /\ call.mask \in 0 .. 15) =>
        \A i \in 1 .. 4 :
            /\ rpg4x6_table(call.mask)[i][1] = rpg4x6_doc_table(call.mask)[i][1] - 1
            /\ rpg4x6_table(call.mask)[i][2] = rpg4x6_doc_table(call.mask)[i][2] - 1
            /\ rpg4x6_table(call.mask)[i][1] \in 0 .. 3
            /\ rpg4x6_table(call.mask)[i][2] \in 0 .. 5
            /\ (Divisible /\ ret.status = "Ok") =>
                   \A dx \in 0 .. (raw.w \div 4) - 1, dy \in 0 .. (raw.h \div 6) - 1 :
                       ret.img.px[<<((i - 1) % 2) * (raw.w \div 4) + dx,
                                    ((i - 1) \div 2) * (raw.h \div 6) + dy>>]
                           = raw.px[<<(rpg4x6_doc_table(call.mask)[i][1] - 1) * (raw.w \div 4) + dx,
                                      (rpg4x6_doc_table(call.mask)[i][2] - 1) * (raw.h \div 6) + dy>>]

\* C13: rpg4x6_to_complete maps every (col, row) of the 24x8 domain into
\* the 4x6 reference grid, so make_complete(raw, w, h) on a 4*w x 6*h image
\* does not panic, returns a 24*w x 8*h image, and its cell (i, j) is a
\* copy of the single source cell rpg4x6_to_complete(i, j).
C13_ExpandedSheet ==
    (call.op = "make_complete" /\ raw.w = 4 * call.cell_w /\ raw.h = 6 * call.cell_h) =>
        /\ \A i \in 0 .. 23, j \in 0 .. 7 :
               /\ rpg4x6_to_complete(i, j)[1] \in 0 .. 3
               /\ rpg4x6_to_complete(i, j)[2] \in 0 .. 5
        /\ ret.status = "Ok"
        /\ ret.img.w = 24 * call.cell_w
        /\ ret.img.h = 8 * call.cell_h
        /\ \A i \in 0 .. 23, j \in 0 .. 7, dx \in 0 .. call.cell_w - 1, dy \in 0 .. call.cell_h - 1 :
               /\ ret.img.px[<<i * call.cell_w + dx, j * call.cell_h + dy>>]
                      = raw.px[<<rpg4x6_to_complete(i, j)[1] * call.cell_w + dx,
                                 rpg4x6_to_complete(i, j)[2] * call.cell_h + dy>>]
               /\ ret.img.wr[<<i * call.cell_w + dx, j * call.cell_h + dy>>] = 1

C13_Witness ==
    /\ call.op = "make_complete"
    /\ call.cell_w = 2 /\ call.cell_h = 1
    /\ raw.w = 8 /\ raw.h = 6
    /\ ret.status = "Ok"
    /\ ret.img.w = 48 /\ ret.img.h = 8
    /\ ret.img.px[<<47, 7>>] = raw.px[<<7, 5>>]

\* C14: for a square wang source of side 4*s from_wang returns a
\* 16*s x s strip whose slot i is a copy of the source cell make_wing_cell
\* selects for i; the sixteen selected cells are pairwise distinct, so each
\* cell of the 4x4 grid is in the strip exactly once; a width that is not a
\* multiple of 4, or differs from the height, gives a dimension error.
C14_WangPermutation ==
    call.op = "from_wang" =>
        IF raw.w % 4 = 0 /\ raw.w = raw.h
        THEN LET s == raw.w \div 4
                 slot(i) == [p \in Coords(s, s) |-> ret.img.px[<<i * s + p[1], p[2]>>]]
                 cell(c, r) == [p \in Coords(s, s) |-> raw.px[<<c * s + p[1], r * s + p[2]>>]]
             IN /\ ret.status = "Ok"
                /\ ret.img.w = 16 * s
                /\ ret.img.h = s
                /\ \A i \in 0 .. 15 :
                       /\ make_wing_table(i)[1] \in 0 .. 3
                       /\ make_wing_table(i)[2] \in 0 .. 3
                       /\ slot(i) = cell(make_wing_table(i)[1], make_wing_table(i)[2])
                /\ \A i, k \in 0 .. 15 : i # k => make_wing_table(i) # make_wing_table(k)
                /\ \A c \in 0 .. 3, r \in 0 .. 3 :
                       Cardinality({i \in 0 .. 15 : slot(i) = cell(c, r)}) = 1
        ELSE ret.status = "Err" /\ ret.err = "DimensionError" /\ ret.img = NoImage

C14_Witness ==
    /\ call.op = "from_wang"
    /\ raw.w = 8 /\ raw.h = 8
    /\ ret.status = "Ok"
    /\ ret.img.w = 32 /\ ret.img.h = 2
    /\ ret.img.px[<<0, 0>>] = raw.px[<<0, 6>>]

====
